---------------------------- MODULE Spec2Model ----------------------------
(* Model of the timer registry of examples/sample_c_files/timer:            *)
(* src/timer.c, src/timer_internal.c, include/timer.h.                      *)
(* The registry is a singly linked list of heap-allocated Timer nodes       *)
(* reached from the static pointer g_timer_system.  Nodes are modelled at   *)
(* the pointer level: heap maps an address to the Timer stored there, live  *)
(* is the set of addresses malloc has handed out and free has not taken     *)
(* back.                                                                    *)
EXTENDS Integers, Sequences, FiniteSets, TLC

----------------------------------------------------------------------------
(* Bounds of the model *)

\* number of Timer cells the allocator can hand out before malloc fails
MaxTimers == 2
\* largest interval passed to timer_create
MaxInterval == 2
\* largest small elapsed value passed to timer_update
MaxElapsed == 3
\* number of distinct ids one registry hands out before the model stops creating
MaxIssued == 3
\* the same number in the specification with fairness
MaxLiveIssued == 2

----------------------------------------------------------------------------
(* Program constants *)

\* Ids are uint32_t.  TLC's integers are 32-bit signed, so a uint32_t id v is
\* written in two's complement: v itself below 2^31, v - 2^32 from 2^31 on.
\* Ids are only incremented and compared for equality, which this encoding
\* preserves.  UINT32_MAX (4294967295) is therefore written -1.
UINT32_MAX == -1
INT32_MAX == 2147483647
NULL == 0

\* bool, as the integers C converts it to; every return value is an integer
true == 1
false == 0

TIMER_IDLE == "TIMER_IDLE"
TIMER_RUNNING == "TIMER_RUNNING"
TIMER_PAUSED == "TIMER_PAUSED"
TIMER_COMPLETED == "TIMER_COMPLETED"
TimerState == {TIMER_IDLE, TIMER_RUNNING, TIMER_PAUSED, TIMER_COMPLETED}

\* a TimerCallback value: the null function pointer or the callback of the test
NULL_CALLBACK == "NULL"
timer_callback == "timer_callback"
TimerCallback == {NULL_CALLBACK, timer_callback}

\* a client callback that calls timer_cancel on an id of its choice, and the
\* callbacks a client that uses it passes to timer_create
cancelling_callback == "cancelling_callback"
TimerCallbackCancelling == TimerCallback \cup {cancelling_callback}

\* x + 1 on a uint32_t (modulo 2^32), in the encoding above
Inc32(x) == IF x = INT32_MAX THEN (-INT32_MAX) - 1 ELSE x + 1

Addr == 1..MaxTimers

\* the content of a cell that holds no Timer
NoTimer ==
  [id |-> 0, interval |-> 0, remaining |-> 0, repeat |-> FALSE,
   state |-> TIMER_IDLE, callback |-> NULL_CALLBACK, next |-> NULL]

\* the content of *g_timer_system while g_timer_system is NULL
NoSystem == [head |-> NULL, next_id |-> 0, running |-> FALSE]

----------------------------------------------------------------------------
VARIABLES
  g_timer_system, \* TRUE iff the static pointer g_timer_system is not NULL
  timer_system,   \* *g_timer_system: [head, next_id, running]
  heap,           \* address -> Timer
  live,           \* allocated Timer cells
  invoked,        \* addresses whose callback the last operation invoked, in order
  ret,            \* the last call: its name and its return value (0 for void)
  issued,         \* ids successful creates have returned on this registry
  expired,        \* ids of one-shot timers removed by expiry on this registry
  elapsed_sum,    \* address -> the elapsed time timer_update has passed while the
                  \* timer there was Running, since it was created or last fired
  fault           \* TRUE once timer_update has used a Timer cell after its free

vars == <<g_timer_system, timer_system, heap, live, invoked, ret, issued, expired,
          elapsed_sum, fault>>

----------------------------------------------------------------------------
(* Helpers over the list *)

\* the addresses linked from a, in list order
RECURSIVE ListFrom(_, _)
ListFrom(h, a) == IF a = NULL THEN <<>> ELSE <<a>> \o ListFrom(h, h[a].next)

\* the registered timers, head first
Registered == ListFrom(heap, timer_system.head)

RegisteredSet == {Registered[i] : i \in 1..Len(Registered)}

\* malloc(sizeof(Timer)): a cell not in use, NULL when there is none
malloc(inUse) ==
  IF Addr \ inUse = {} THEN NULL
  ELSE CHOOSE a \in Addr \ inUse : \A b \in Addr \ inUse : a <= b

----------------------------------------------------------------------------
(* find_timer *)

\* mutant of find_loop: the first entry is taken whatever its id
find_loop_first(h, current, id) == current

RECURSIVE find_loop(_, _, _)
find_loop(h, current, id) ==
  IF current = NULL THEN NULL
  ELSE IF h[current].id = id THEN current
  ELSE find_loop(h, h[current].next, id)

find_timer(sysNonNull, system, h, id) ==
  IF ~sysNonNull THEN NULL ELSE find_loop(h, system.head, id)

----------------------------------------------------------------------------
(* timer_count *)

RECURSIVE count_loop(_, _, _)
count_loop(h, current, count) ==
  IF current = NULL THEN count
  ELSE count_loop(h, h[current].next, count + 1)

timer_count_value(sysNonNull, system, h) ==
  IF ~sysNonNull THEN 0 ELSE count_loop(h, system.head, 0)

\* count() of the current state
Count == timer_count_value(g_timer_system, timer_system, heap)

----------------------------------------------------------------------------
(* timer_cancel: the walk with prev/current; the result is the new           *)
(* [head, heap, live] and the return value                                   *)

RECURSIVE cancel_loop(_, _, _, _)
cancel_loop(st, current, prev, id) ==
  IF current = NULL THEN [st EXCEPT !.val = false]
  ELSE IF st.heap[current].id = id
  THEN LET nxt == st.heap[current].next
           unlinked ==
             IF prev = NULL
             THEN [st EXCEPT !.head = nxt]
             ELSE [st EXCEPT !.heap[prev].next = nxt]
       IN [unlinked EXCEPT !.heap[current] = NoTimer,
                           !.live = @ \ {current},
                           !.val = true]
  ELSE cancel_loop(st, st.heap[current].next, current, id)

----------------------------------------------------------------------------
(* timer_update: the pass with prev/current/next                            *)

\* mutant of call_callback: the callback is not called
call_callback_skipped(st, current) == st

\* current->callback(current->arg): the callback of the test counts its calls;
\* the cancelling callback also runs timer_cancel(st.target) on the registry
call_callback(st, current) ==
  LET called == [st EXCEPT !.invoked = Append(@, current)] IN
  IF st.heap[current].callback = cancelling_callback
  THEN cancel_loop(called, called.head, NULL, called.target)
  ELSE called

\* mutant of is_advanced: paused timers are advanced too
is_advanced_unless_idle(state) == state # TIMER_IDLE

\* the timers timer_update advances: those in state TIMER_RUNNING
is_advanced(state) == state = TIMER_RUNNING

\* mutant of is_expired: a timer whose remaining equals elapsed does not fire
is_expired_strict(remaining, elapsed) == remaining < elapsed

\* the expiry test of timer_update
is_expired(remaining, elapsed) == remaining <= elapsed

\* mutant of rearm: the timer that fired keeps the remaining it had
rearm_keep(t) == t.remaining

\* what a repeating timer's remaining becomes when it fires
rearm(t) == t.interval

\* mutant of prev_after_removal: prev moves on to the entry just released
prev_after_removal_current(prev, current) == current

\* prev after the current entry was removed: the pass continues without
\* moving prev
prev_after_removal(prev, current) == prev

\* mutant of advance: every update takes one time unit off
advance_by_one(remaining, elapsed) == remaining - 1

\* remaining of a running timer that has not expired, after the update
advance(remaining, elapsed) == remaining - elapsed

\* the pass stops here: it has read, written or released a cell already freed
use_after_free(st) == [st EXCEPT !.fault = TRUE]

RECURSIVE update_loop(_, _, _, _)
update_loop(st, current, prev, elapsed) ==
  IF current = NULL THEN st
  ELSE IF current \notin st.live THEN use_after_free(st)
  ELSE
    LET next == st.heap[current].next IN
    IF is_advanced(st.heap[current].state)
    THEN
      IF is_expired(st.heap[current].remaining, elapsed)
      THEN
        LET st1 == call_callback(st, current) IN
        IF current \notin st1.live THEN use_after_free(st1)
        ELSE IF st1.heap[current].repeat
        THEN update_loop([st1 EXCEPT !.heap[current].remaining = rearm(st1.heap[current])],
                         next, current, elapsed)
        ELSE IF prev # NULL /\ prev \notin st1.live THEN use_after_free(st1)
        ELSE
          LET unlinked ==
                IF prev = NULL
                THEN [st1 EXCEPT !.head = st1.heap[current].next]
                ELSE [st1 EXCEPT !.heap[prev].next = st1.heap[current].next]
              freed == [unlinked EXCEPT !.heap[current] = NoTimer,
                                        !.live = @ \ {current},
                                        !.expired = @ \cup {st1.heap[current].id}]
          IN update_loop(freed, next, prev_after_removal(prev, current), elapsed)
      ELSE update_loop([st EXCEPT !.heap[current].remaining = advance(@, elapsed)],
                       next, current, elapsed)
    ELSE update_loop(st, next, current, elapsed)

----------------------------------------------------------------------------
(* Initial states *)

\* program start: g_timer_system = NULL, nothing allocated
InitFresh ==
  /\ g_timer_system = FALSE
  /\ timer_system = NoSystem
  /\ heap = [a \in Addr |-> NoTimer]
  /\ live = {}
  /\ invoked = <<>>
  /\ ret = [op |-> "none", val |-> 0]
  /\ issued = {}
  /\ expired = {}
  /\ elapsed_sum = [a \in Addr |-> 0]
  /\ fault = FALSE

\* a registry that has been in use for a long time: its first timer (id 1) is
\* still registered and idle, and create/cancel pairs have since advanced
\* next_id to UINT32_MAX.  issued records id 1 only; the ids in between are
\* not tracked.
InitAged ==
  /\ g_timer_system = TRUE
  /\ \E i \in 1..MaxInterval, r \in BOOLEAN :
       heap = [a \in Addr |->
                 IF a = 1
                 THEN [id |-> 1, interval |-> i, remaining |-> i, repeat |-> r,
                       state |-> TIMER_IDLE, callback |-> timer_callback,
                       next |-> NULL]
                 ELSE NoTimer]
  /\ timer_system = [head |-> 1, next_id |-> UINT32_MAX, running |-> TRUE]
  /\ live = {1}
  /\ invoked = <<>>
  /\ ret = [op |-> "none", val |-> 0]
  /\ issued = {1}
  /\ expired = {}
  /\ elapsed_sum = [a \in Addr |-> 0]
  /\ fault = FALSE

Init == InitFresh \/ InitAged

----------------------------------------------------------------------------
(* Inputs *)

IntervalValues == 0..MaxInterval
ElapsedValues == 0..MaxElapsed
IdValues == 0..MaxIssued \cup {UINT32_MAX}

----------------------------------------------------------------------------
(* Operations *)

\* mutant of init_returns_early: init always builds a new registry
init_returns_early_never(sysNonNull) == FALSE

\* init returns true at once when the registry exists already
init_returns_early(sysNonNull) == sysNonNull

\* bool timer_system_init(void); mallocOk: whether malloc(sizeof(TimerSystem)) succeeds
timer_system_init(mallocOk) ==
  /\ invoked' = <<>>
  /\ UNCHANGED <<elapsed_sum, fault>>
  /\ IF init_returns_early(g_timer_system)
     THEN /\ ret' = [op |-> "init", val |-> true]
          /\ UNCHANGED <<g_timer_system, timer_system, heap, live, issued, expired>>
     ELSE IF ~mallocOk
     THEN /\ ret' = [op |-> "init", val |-> false]
          /\ UNCHANGED <<g_timer_system, timer_system, heap, live, issued, expired>>
     ELSE /\ g_timer_system' = TRUE
          /\ timer_system' = [head |-> NULL, next_id |-> 1, running |-> TRUE]
          /\ issued' = {}
          /\ expired' = {}
          /\ ret' = [op |-> "init", val |-> true]
          /\ UNCHANGED <<heap, live>>

\* mutant of create_rejects: the test for an uninitialised registry is missing
create_rejects_arguments_only(sysNonNull, interval, callback) ==
  callback = NULL_CALLBACK \/ interval = 0

\* mutant of create_rejects: the test for a zero interval is missing
create_rejects_nonzero_only(sysNonNull, interval, callback) ==
  ~sysNonNull \/ callback = NULL_CALLBACK

\* the precondition test of timer_create
create_rejects(sysNonNull, interval, callback) ==
  ~sysNonNull \/ callback = NULL_CALLBACK \/ interval = 0

\* the id timer_create gives the new timer, and the next_id it leaves
create_id(system) == system.next_id
create_next_id(system) == Inc32(system.next_id)

\* mutant of create_timer: the new timer is armed and running at once
create_timer_running(system, interval, callback, repeat) ==
  [id |-> create_id(system), interval |-> interval, remaining |-> interval,
   repeat |-> repeat, state |-> TIMER_RUNNING, callback |-> callback,
   next |-> system.head]

\* mutant of create_timer: the new timer is marked completed
create_timer_completed(system, interval, callback, repeat) ==
  [id |-> create_id(system), interval |-> interval, remaining |-> interval,
   repeat |-> repeat, state |-> TIMER_COMPLETED, callback |-> callback,
   next |-> system.head]

\* the Timer timer_create initialises and links at the head
create_timer(system, interval, callback, repeat) ==
  [id |-> create_id(system), interval |-> interval, remaining |-> interval,
   repeat |-> repeat, state |-> TIMER_IDLE, callback |-> callback,
   next |-> system.head]

\* uint32_t timer_create(interval, callback, arg, repeat); malloc fails when
\* every cell is in use
timer_create(interval, callback, repeat) ==
  LET timer == malloc(live) IN
  /\ invoked' = <<>>
  /\ IF create_rejects(g_timer_system, interval, callback) \/ timer = NULL
     THEN /\ ret' = [op |-> "create", val |-> 0]
          /\ UNCHANGED <<g_timer_system, timer_system, heap, live, issued, expired,
                         elapsed_sum, fault>>
     ELSE /\ create_id(timer_system) \in issued \/ Cardinality(issued) < MaxIssued
          /\ heap' = [heap EXCEPT ![timer] =
                        create_timer(timer_system, interval, callback, repeat)]
          /\ live' = live \cup {timer}
          /\ timer_system' = [timer_system EXCEPT !.head = timer,
                                                  !.next_id = create_next_id(timer_system)]
          /\ issued' = issued \cup {heap'[timer].id}
          /\ ret' = [op |-> "create", val |-> heap'[timer].id]
          /\ elapsed_sum' = [elapsed_sum EXCEPT ![timer] = 0]
          /\ UNCHANGED <<g_timer_system, expired, fault>>

\* mutant of start_allowed: only an idle timer can be started
start_allowed_idle_only(s) == s = TIMER_IDLE

\* whether timer_start changes the state of a timer in state s
start_allowed(s) == s # TIMER_RUNNING

\* the value timer_start(id) returns in the current state
timer_start_returns(id) ==
  LET timer == find_timer(g_timer_system, timer_system, heap, id) IN
  IF timer = NULL THEN false
  ELSE IF start_allowed(heap[timer].state) THEN true
  ELSE false

\* bool timer_start(id)
timer_start(id) ==
  LET timer == find_timer(g_timer_system, timer_system, heap, id) IN
  /\ invoked' = <<>>
  /\ ret' = [op |-> "start", val |-> timer_start_returns(id)]
  /\ UNCHANGED <<g_timer_system, timer_system, live, issued, expired,
                 elapsed_sum, fault>>
  /\ IF timer = NULL
     THEN UNCHANGED heap
     ELSE IF start_allowed(heap[timer].state)
     THEN heap' = [heap EXCEPT ![timer].state = TIMER_RUNNING]
     ELSE UNCHANGED heap

\* mutant of pause_allowed: an idle timer can be paused too
pause_allowed_unless_paused(s) == s # TIMER_PAUSED

\* whether timer_pause changes the state of a timer in state s
pause_allowed(s) == s = TIMER_RUNNING

\* the value timer_pause(id) returns in the current state
timer_pause_returns(id) ==
  LET timer == find_timer(g_timer_system, timer_system, heap, id) IN
  IF timer = NULL THEN false
  ELSE IF pause_allowed(heap[timer].state) THEN true
  ELSE false

\* bool timer_pause(id)
timer_pause(id) ==
  LET timer == find_timer(g_timer_system, timer_system, heap, id) IN
  /\ invoked' = <<>>
  /\ ret' = [op |-> "pause", val |-> timer_pause_returns(id)]
  /\ UNCHANGED <<g_timer_system, timer_system, live, issued, expired,
                 elapsed_sum, fault>>
  /\ IF timer = NULL
     THEN UNCHANGED heap
     ELSE IF pause_allowed(heap[timer].state)
     THEN heap' = [heap EXCEPT ![timer].state = TIMER_PAUSED]
     ELSE UNCHANGED heap

\* the outcome of timer_cancel(id) on an initialised registry
cancel_result(system, h, lv, id) ==
  cancel_loop([head |-> system.head, heap |-> h, live |-> lv, val |-> false],
              system.head, NULL, id)

\* the value timer_cancel(id) returns in the current state
timer_cancel_returns(id) ==
  IF ~g_timer_system THEN false
  ELSE cancel_result(timer_system, heap, live, id).val

\* bool timer_cancel(id)
timer_cancel(id) ==
  /\ invoked' = <<>>
  /\ ret' = [op |-> "cancel", val |-> timer_cancel_returns(id)]
  /\ UNCHANGED <<g_timer_system, issued, expired, fault>>
  /\ IF ~g_timer_system
     THEN UNCHANGED <<timer_system, heap, live, elapsed_sum>>
     ELSE LET r == cancel_result(timer_system, heap, live, id) IN
          /\ timer_system' = [timer_system EXCEPT !.head = r.head]
          /\ heap' = r.heap
          /\ live' = r.live
          /\ elapsed_sum' = [a \in Addr |-> IF a \in r.live THEN elapsed_sum[a] ELSE 0]

\* the outcome of the pass of timer_update(elapsed) on an active registry when
\* the cancelling callback cancels the id target
update_pass(system, h, lv, ex, elapsed, target) ==
  update_loop([head |-> system.head, heap |-> h, live |-> lv, expired |-> ex,
               invoked |-> <<>>, val |-> false, target |-> target,
               fault |-> FALSE],
              system.head, NULL, elapsed)

\* the outcome of the pass of timer_update(elapsed) on an active registry
update_result(system, h, lv, ex, elapsed) ==
  update_pass(system, h, lv, ex, elapsed, 0)

\* elapsed_sum after a pass that left the cells lv allocated and invoked the
\* callbacks of inv: a timer that was Running has elapsed added, or starts
\* again from 0 if it fired
elapsed_sum_after(h, lv, inv, sums, elapsed) ==
  [a \in Addr |->
     IF a \notin lv THEN 0
     ELSE IF h[a].state # TIMER_RUNNING THEN sums[a]
     ELSE IF \E i \in 1..Len(inv) : inv[i] = a THEN 0
     ELSE sums[a] + elapsed]

\* void timer_update(elapsed), with the id target that the cancelling callback
\* cancels.  A pass that uses a cell after its free has undefined behaviour:
\* fault records it and the registry is not followed any further.
timer_update_cancelling(elapsed, target) ==
  /\ ret' = [op |-> "update", val |-> 0]
  /\ UNCHANGED <<g_timer_system, issued>>
  /\ IF ~g_timer_system \/ ~timer_system.running
     THEN /\ invoked' = <<>>
          /\ UNCHANGED <<timer_system, heap, live, expired, elapsed_sum, fault>>
     ELSE LET r == update_pass(timer_system, heap, live, expired, elapsed, target) IN
          IF r.fault
          THEN /\ fault' = TRUE
               /\ invoked' = r.invoked
               /\ UNCHANGED <<timer_system, heap, live, expired, elapsed_sum>>
          ELSE /\ timer_system' = [timer_system EXCEPT !.head = r.head]
               /\ heap' = r.heap
               /\ live' = r.live
               /\ expired' = r.expired
               /\ invoked' = r.invoked
               /\ elapsed_sum' = elapsed_sum_after(heap, r.live, r.invoked,
                                                   elapsed_sum, elapsed)
               /\ UNCHANGED fault

\* void timer_update(elapsed) of a client none of whose callbacks cancels
timer_update(elapsed) == timer_update_cancelling(elapsed, 0)

\* what timer_system_destroy leaves of the allocated cells
destroy_live(lv, listed) == lv \ listed

\* void timer_system_destroy(void)
timer_system_destroy ==
  /\ invoked' = <<>>
  /\ UNCHANGED fault
  /\ ret' = [op |-> "destroy", val |-> 0]
  /\ IF ~g_timer_system
     THEN UNCHANGED <<g_timer_system, timer_system, heap, live, issued, expired,
                      elapsed_sum>>
     ELSE /\ heap' = [a \in Addr |-> IF a \in RegisteredSet THEN NoTimer ELSE heap[a]]
          /\ elapsed_sum' = [a \in Addr |->
                               IF a \in destroy_live(live, RegisteredSet)
                               THEN elapsed_sum[a] ELSE 0]
          /\ live' = destroy_live(live, RegisteredSet)
          /\ g_timer_system' = FALSE
          /\ timer_system' = NoSystem
          /\ issued' = {}
          /\ expired' = {}

\* uint32_t timer_count(void)
timer_count ==
  /\ invoked' = <<>>
  /\ ret' = [op |-> "count", val |-> Count]
  /\ UNCHANGED <<g_timer_system, timer_system, heap, live, issued, expired,
                 elapsed_sum, fault>>

----------------------------------------------------------------------------
Next ==
  \/ \E ok \in BOOLEAN : timer_system_init(ok)
  \/ \E i \in IntervalValues, cb \in TimerCallback, r \in BOOLEAN :
       timer_create(i, cb, r)
  \/ \E id \in IdValues : timer_start(id)
  \/ \E id \in IdValues : timer_pause(id)
  \/ \E id \in IdValues : timer_cancel(id)
  \/ \E e \in ElapsedValues : timer_update(e)
  \/ timer_system_destroy
  \/ timer_count

Spec == Init /\ [][Next]_vars

\* the behaviours of a registry that starts at program start only
SpecFresh == InitFresh /\ [][Next]_vars

\* a client that creates MaxLiveIssued timers at most on one registry and uses
\* their ids, and whose main loop calls update again and again with elapsed > 0
PositiveElapsed == 1..MaxElapsed
LiveIdValues == 1..MaxLiveIssued
NextLive ==
  \/ \E ok \in BOOLEAN : timer_system_init(ok)
  \/ /\ Cardinality(issued) < MaxLiveIssued
     /\ \E i \in IntervalValues, cb \in TimerCallback, r \in BOOLEAN :
          timer_create(i, cb, r)
  \/ \E id \in LiveIdValues : timer_start(id)
  \/ \E id \in LiveIdValues : timer_pause(id)
  \/ \E id \in LiveIdValues : timer_cancel(id)
  \/ \E e \in ElapsedValues : timer_update(e)
  \/ timer_system_destroy
  \/ timer_count

SpecLive ==
  /\ InitFresh
  /\ [][NextLive]_vars
  /\ WF_vars(\E e \in PositiveElapsed : timer_update(e))

\* a client that also registers the cancelling callback; whenever update runs,
\* the id that callback cancels is any id.  Nothing is followed after a fault.
NextCancelling ==
  \/ ~fault /\ \E ok \in BOOLEAN : timer_system_init(ok)
  \/ ~fault /\ \E i \in IntervalValues, cb \in TimerCallbackCancelling, r \in BOOLEAN :
                 timer_create(i, cb, r)
  \/ ~fault /\ \E id \in IdValues : timer_start(id)
  \/ ~fault /\ \E id \in IdValues : timer_pause(id)
  \/ ~fault /\ \E id \in IdValues : timer_cancel(id)
  \/ ~fault /\ \E e \in ElapsedValues, target \in IdValues :
                 timer_update_cancelling(e, target)
  \/ ~fault /\ timer_system_destroy
  \/ ~fault /\ timer_count

SpecCancelling == InitFresh /\ [][NextCancelling]_vars


----------------------------------------------------------------------------
(* Vocabulary of the properties *)

\* the ids of the registered timers
RegisteredIds == {heap[a].id : a \in RegisteredSet}

IsRegistered(id) == id \in RegisteredIds

\* the timer an id denotes: the first one in the list carrying it, NULL if none
TimerOf(id) ==
  IF ~IsRegistered(id) THEN NULL
  ELSE LET i == CHOOSE i \in 1..Len(Registered) :
                  /\ heap[Registered[i]].id = id
                  /\ \A j \in 1..(i - 1) : heap[Registered[j]].id # id
       IN Registered[i]

\* how many times the last operation invoked the callback of the timer at a
TimesInvoked(a) == Cardinality({i \in 1..Len(invoked) : invoked[i] = a})

\* the step registered a new timer
CreateSucceeded == ret'.op = "create" /\ live' # live

\* the running one-shot timers an update by e removes
Expiring(e) ==
  {a \in RegisteredSet :
     /\ heap[a].state = TIMER_RUNNING
     /\ ~heap[a].repeat
     /\ heap[a].remaining <= e}

\* the timer at a is the same in the next state, apart from its link
SameTimer(a) ==
  /\ a \in RegisteredSet'
  /\ heap'[a] = [heap[a] EXCEPT !.next = heap'[a].next]

----------------------------------------------------------------------------
(* C1: every successful create returns an id that is not 0 and differs from  *)
(* every id an earlier create on this registry returned, so no two           *)
(* registered timers share an id.                                            *)

UniqueIds ==
  \A a, b \in RegisteredSet : a # b => heap[a].id # heap[b].id

\* C1: ids are pairwise distinct in every state, and every create that
\* registers a timer returns an id that is not 0 and was not issued before
C1_FreshIds ==
  /\ []UniqueIds
  /\ [][CreateSucceeded => (ret'.val # 0 /\ ret'.val \notin issued)]_vars

\* two registered timers carry the same id
C1_DuplicateReached == ~UniqueIds

----------------------------------------------------------------------------
(* C2: update(e) of a Running non-repeating timer with remaining R: when     *)
(* e < R it stays registered and Running with remaining R - e and its        *)
(* callback is not invoked; when e >= R its callback is invoked exactly once *)
(* and the timer is removed, each removed timer lowering count() by one.     *)

UpdateStep(e) == timer_update(e) /\ g_timer_system

\* C2: the effect of every update step on every Running one-shot timer
C2_OneShot ==
  [][\A e \in ElapsedValues : UpdateStep(e) =>
       /\ Count' = Count - Cardinality(Expiring(e))
       /\ \A a \in RegisteredSet :
            (heap[a].state = TIMER_RUNNING /\ ~heap[a].repeat) =>
              IF e < heap[a].remaining
              THEN /\ a \in RegisteredSet'
                   /\ heap'[a].state = TIMER_RUNNING
                   /\ heap'[a].remaining = heap[a].remaining - e
                   /\ heap'[a].id = heap[a].id
                   /\ TimesInvoked(a)' = 0
              ELSE /\ TimesInvoked(a)' = 1
                   /\ a \notin RegisteredSet'
                   /\ a \notin live'
                   /\ (Expiring(e) = {a} => Count' = Count - 1)]_vars

\* an update has just fired and removed a one-shot timer while another timer
\* that it only advanced stays registered
C2_Witness ==
  /\ ret.op = "update"
  /\ Len(invoked) = 1
  /\ invoked[1] \notin RegisteredSet
  /\ \E a \in RegisteredSet :
       heap[a].state = TIMER_RUNNING /\ ~heap[a].repeat /\ heap[a].remaining < heap[a].interval

----------------------------------------------------------------------------
(* C3: update(e) of a Running repeating timer with interval I and remaining  *)
(* R, e >= R however large: the callback is invoked exactly once and the     *)
(* timer stays registered and Running with remaining = I; it does not lower  *)
(* count().  So each update(I) of a started repeating timer fires it once    *)
(* and leaves it as it found it.                                             *)

C3_Repeating ==
  [][\A e \in ElapsedValues : UpdateStep(e) =>
       /\ Count' = Count - Cardinality(Expiring(e))
       /\ \A a \in RegisteredSet :
            (heap[a].state = TIMER_RUNNING /\ heap[a].repeat /\ heap[a].remaining <= e) =>
              /\ TimesInvoked(a)' = 1
              /\ a \in RegisteredSet'
              /\ a \notin Expiring(e)
              /\ heap'[a].state = TIMER_RUNNING
              /\ heap'[a].remaining = heap[a].interval
              /\ heap'[a].interval = heap[a].interval
              /\ heap'[a].repeat
              /\ heap'[a].id = heap[a].id]_vars

\* an update has just fired a repeating timer that stays registered, re-armed
C3_Witness ==
  /\ ret.op = "update"
  /\ \E a \in RegisteredSet :
       /\ TimesInvoked(a) = 1
       /\ heap[a].repeat
       /\ heap[a].state = TIMER_RUNNING
       /\ heap[a].interval = MaxInterval
       /\ heap[a].remaining = heap[a].interval

----------------------------------------------------------------------------
(* C4: update(e) leaves every Idle or Paused timer as it is, for every e:    *)
(* its callback is not invoked, its state and remaining do not change and it *)
(* stays registered.                                                         *)

C4_NotRunningUntouched ==
  [][\A e \in ElapsedValues : UpdateStep(e) =>
       \A a \in RegisteredSet :
         heap[a].state \in {TIMER_IDLE, TIMER_PAUSED} =>
           /\ TimesInvoked(a)' = 0
           /\ SameTimer(a)]_vars

\* an update has just fired a timer while a paused timer whose remaining was
\* within the elapsed time stays registered
C4_Witness ==
  /\ ret.op = "update"
  /\ Len(invoked) >= 1
  /\ \E a \in RegisteredSet :
       /\ heap[a].state = TIMER_PAUSED
       /\ heap[a].remaining = 1
       /\ TimesInvoked(a) = 0

----------------------------------------------------------------------------
(* C5: cancel(id) of a registered id succeeds whatever the timer's state and *)
(* lowers count() by exactly 1, and afterwards start(id), pause(id) and      *)
(* cancel(id) all return false; cancel of an id that is not registered       *)
(* returns false and leaves count() as it is.                                *)

C5_CancelKillsId ==
  [][\A id \in IdValues : timer_cancel(id) =>
       IF IsRegistered(id)
       THEN /\ ret'.val = true
            /\ Count' = Count - 1
            /\ timer_start_returns(id)' = false
            /\ timer_pause_returns(id)' = false
            /\ timer_cancel_returns(id)' = false
       ELSE /\ ret'.val = false
            /\ Count' = Count]_vars

----------------------------------------------------------------------------
(* C6: create with a null callback or a zero interval returns 0 and leaves   *)
(* the registry as it is: same count(), same timers, same next_id.           *)

C6_CreateRejects ==
  [][\A i \in IntervalValues, cb \in TimerCallback, r \in BOOLEAN :
       (timer_create(i, cb, r) /\ (cb = NULL_CALLBACK \/ i = 0)) =>
         /\ ret'.op = "create"
         /\ ret'.val = 0
         /\ Count' = Count
         /\ UNCHANGED <<g_timer_system, timer_system, heap, live>>]_vars

\* a create has just been rejected by a registry that holds a running timer
\* and has room for another
C6_Witness ==
  /\ ret.op = "create"
  /\ ret.val = 0
  /\ g_timer_system
  /\ live # Addr
  /\ \E a \in RegisteredSet : heap[a].state = TIMER_RUNNING

----------------------------------------------------------------------------
(* C7: a successful create(interval, callback, argument, repeat) raises      *)
(* count() by exactly 1 and registers the new timer Idle with remaining =    *)
(* interval; the timer is not fired by update until start has succeeded on   *)
(* it: an Idle timer never fires, and only a successful start takes it out   *)
(* of Idle.                                                                  *)

C7_CreateRegistersIdle ==
  /\ [][\A i \in IntervalValues, cb \in TimerCallback, r \in BOOLEAN :
          (timer_create(i, cb, r) /\ live' # live) =>
            /\ Count' = Count + 1
            /\ \E a \in RegisteredSet' \ RegisteredSet :
                 /\ RegisteredSet' = RegisteredSet \cup {a}
                 /\ heap'[a].id = ret'.val
                 /\ heap'[a].state = TIMER_IDLE
                 /\ heap'[a].remaining = i
                 /\ heap'[a].interval = i
                 /\ heap'[a].repeat = r
                 /\ heap'[a].callback = cb
                 /\ i > 0
                 /\ cb # NULL_CALLBACK]_vars
  /\ [][\A a \in RegisteredSet : heap[a].state = TIMER_IDLE =>
          /\ TimesInvoked(a)' = 0
          /\ (a \in RegisteredSet' /\ heap'[a].state # TIMER_IDLE) =>
               /\ ret'.op = "start"
               /\ ret'.val = true
               /\ heap'[a].state = TIMER_RUNNING]_vars

\* a create has just registered a timer beside a running one, and the update
\* that follows fires the running one only
C7_Witness ==
  /\ ret.op = "update"
  /\ Len(invoked) = 1
  /\ \E a \in RegisteredSet :
       /\ heap[a].state = TIMER_IDLE
       /\ heap[a].id = MaxIssued
       /\ heap[a].remaining = 1
       /\ heap[a].interval = 1

----------------------------------------------------------------------------
(* C8: after destroy() the registry is uninitialised, and until initialize   *)
(* is called again every operation behaves accordingly: create returns 0,    *)
(* start, pause and cancel return false for every id, count() returns 0,     *)
(* update invokes no callback, a second destroy() changes nothing.           *)

C8_DestroyedIsUninitialised ==
  /\ [][timer_system_destroy =>
          /\ ~g_timer_system'
          /\ timer_count_value(g_timer_system, timer_system, heap)' = 0
          /\ live' \cap RegisteredSet = {}]_vars
  /\ [][~g_timer_system =>
          /\ ret'.op = "create" => ret'.val = 0
          /\ ret'.op \in {"start", "pause", "cancel"} => ret'.val = false
          /\ ret'.op = "count" => ret'.val = 0
          /\ ret'.op = "update" => invoked' = <<>>
          /\ ret'.op # "init" =>
               UNCHANGED <<g_timer_system, timer_system, heap, live>>]_vars

\* destroy has just run and left the registry uninitialised, every cell
\* released
C8_Witness ==
  /\ ret.op = "destroy"
  /\ ~g_timer_system
  /\ live = {}

----------------------------------------------------------------------------
(* C9: once a non-repeating timer has fired in update and been removed, its  *)
(* id is dead for good: start, pause and cancel of it return false from then *)
(* on and no later create returns it.                                        *)

C9_ExpiredIdDead ==
  /\ [](\A id \in expired :
          /\ timer_start_returns(id) = false
          /\ timer_pause_returns(id) = false
          /\ timer_cancel_returns(id) = false)
  /\ [][CreateSucceeded => ret'.val \notin expired]_vars

----------------------------------------------------------------------------
(* C10: start(id) returns false and changes nothing when id is not           *)
(* registered or its timer is already Running; otherwise (Idle or Paused) it *)
(* returns true and makes the timer Running with its remaining as it was, so *)
(* a timer resumed after a pause goes on from where it was paused.           *)

C10_Start ==
  [][\A id \in IdValues : timer_start(id) =>
       LET a == TimerOf(id) IN
       IF a = NULL \/ heap[a].state = TIMER_RUNNING
       THEN /\ ret'.val = false
            /\ UNCHANGED <<g_timer_system, timer_system, heap, live>>
       ELSE /\ heap[a].state \in {TIMER_IDLE, TIMER_PAUSED}
            /\ ret'.val = true
            /\ heap' = [heap EXCEPT ![a].state = TIMER_RUNNING]
            /\ heap'[a].remaining = heap[a].remaining
            /\ UNCHANGED <<g_timer_system, timer_system, live>>]_vars

\* a start has just succeeded on the only registered timer, which is part of
\* the way through its interval: it was paused and resumes from there
C10_Witness ==
  /\ ret.op = "start"
  /\ ret.val = true
  /\ Len(Registered) = 1
  /\ heap[Registered[1]].state = TIMER_RUNNING
  /\ heap[Registered[1]].remaining < heap[Registered[1]].interval

----------------------------------------------------------------------------
(* C11: pause(id) returns false and changes nothing when id is not           *)
(* registered or its timer is not Running (Idle or already Paused);          *)
(* otherwise it returns true and makes the timer Paused with its remaining   *)
(* as it was.                                                                *)

C11_Pause ==
  [][\A id \in IdValues : timer_pause(id) =>
       LET a == TimerOf(id) IN
       IF a = NULL \/ heap[a].state # TIMER_RUNNING
       THEN /\ ret'.val = false
            /\ UNCHANGED <<g_timer_system, timer_system, heap, live>>
       ELSE /\ ret'.val = true
            /\ heap' = [heap EXCEPT ![a].state = TIMER_PAUSED]
            /\ heap'[a].remaining = heap[a].remaining
            /\ UNCHANGED <<g_timer_system, timer_system, live>>]_vars

\* a pause has just succeeded on the only registered timer, part of the way
\* through its interval
C11_Witness ==
  /\ ret.op = "pause"
  /\ ret.val = true
  /\ Len(Registered) = 1
  /\ heap[Registered[1]].state = TIMER_PAUSED
  /\ heap[Registered[1]].remaining < heap[Registered[1]].interval

----------------------------------------------------------------------------
(* C12: one update(e) evaluates every timer registered at its start exactly  *)
(* once, wherever it is in the list: a Running timer that does not expire    *)
(* loses exactly e, one that expires fires exactly once, no other callback   *)
(* is invoked, and afterwards the list holds exactly the timers it held      *)
(* before minus the Running non-repeating ones with remaining <= e, in the   *)
(* same order.                                                               *)

\* the subsequence of seq whose elements are in keep
RECURSIVE Filter(_, _)
Filter(seq, keep) ==
  IF seq = <<>> THEN <<>>
  ELSE IF Head(seq) \in keep
  THEN <<Head(seq)>> \o Filter(Tail(seq), keep)
  ELSE Filter(Tail(seq), keep)

\* C12: the pass of every update step, timer by timer
C12_SinglePass ==
  [][\A e \in ElapsedValues : UpdateStep(e) =>
       /\ Registered' = Filter(Registered, RegisteredSet \ Expiring(e))
       /\ live' = live \ Expiring(e)
       /\ Len(invoked') = Cardinality({a \in RegisteredSet :
                                          /\ heap[a].state = TIMER_RUNNING
                                          /\ heap[a].remaining <= e})
       /\ \A a \in RegisteredSet :
            IF heap[a].state = TIMER_RUNNING
            THEN IF heap[a].remaining <= e
                 THEN TimesInvoked(a)' = 1
                 ELSE /\ TimesInvoked(a)' = 0
                      /\ heap'[a].remaining = heap[a].remaining - e
            ELSE /\ TimesInvoked(a)' = 0
                 /\ heap'[a].remaining = heap[a].remaining]_vars

\* an update has just removed every timer of a full list, one after the other
C12_WitnessAllRemoved ==
  /\ ret.op = "update"
  /\ Len(invoked) = MaxTimers
  /\ g_timer_system
  /\ Registered = <<>>

----------------------------------------------------------------------------
(* C13: between public operations every registered timer, in any state, has  *)
(* 0 < remaining <= interval, and its interval never changes after creation. *)

RemainingInRange ==
  \A a \in RegisteredSet :
    /\ 0 < heap[a].remaining
    /\ heap[a].remaining <= heap[a].interval

\* C13: the range of remaining in every state, and interval kept by every step
C13_RemainingInRange ==
  /\ []RemainingInRange
  /\ [][\A a \in RegisteredSet :
          a \in RegisteredSet' => heap'[a].interval = heap[a].interval]_vars

\* an update has just advanced a running timer to one unit before its expiry
\* and fired and re-armed another
C13_Witness ==
  /\ ret.op = "update"
  /\ \E a, b \in RegisteredSet :
       /\ heap[a].state = TIMER_RUNNING
       /\ heap[a].remaining = 1
       /\ heap[a].interval = MaxInterval
       /\ TimesInvoked(a) = 0
       /\ TimesInvoked(b) = 1
       /\ heap[b].remaining = heap[b].interval

----------------------------------------------------------------------------
(* C14: next_id starts at 1 and only increases: a create that registers a    *)
(* timer returns the current next_id and leaves a larger one, a failed       *)
(* create leaves next_id as it is, and in 32 bits no successful create       *)
(* returns 0 or an id that is not larger than every id returned before.      *)

\* a < b for two uint32_t values in the two's complement encoding
U32_LT(a, b) == IF (a < 0) = (b < 0) THEN a < b ELSE b < 0

\* C14: the id counter in every init and create step
C14_CounterOnlyIncreases ==
  /\ [][(ret'.op = "init" /\ ~g_timer_system /\ g_timer_system') =>
          timer_system'.next_id = 1]_vars
  /\ [][(ret'.op = "create" /\ live' = live) =>
          timer_system'.next_id = timer_system.next_id]_vars
  /\ [][CreateSucceeded =>
          /\ ret'.val = timer_system.next_id
          /\ ret'.val # 0
          /\ \A j \in issued : U32_LT(j, ret'.val)
          /\ U32_LT(timer_system.next_id, timer_system'.next_id)]_vars

----------------------------------------------------------------------------
(* C16: no registered timer is ever Completed: its state is Idle, Running or *)
(* Paused; and a timer is Running only if start succeeded on it after every  *)
(* successful pause: only a start that returns true makes a timer Running,   *)
(* a Running timer stays Running until it is removed or a pause returns true *)
(* and that pause leaves it Paused.                                          *)

NeverCompleted ==
  \A a \in RegisteredSet :
    heap[a].state \in {TIMER_IDLE, TIMER_RUNNING, TIMER_PAUSED}

\* C16: the states of the registered timers and the steps into and out of Running
C16_NeverCompleted ==
  /\ []NeverCompleted
  /\ [][\A a \in RegisteredSet' :
          (heap'[a].state = TIMER_RUNNING
             /\ (a \notin RegisteredSet \/ heap[a].state # TIMER_RUNNING)) =>
            /\ ret'.op = "start"
            /\ ret'.val = true
            /\ a \in RegisteredSet]_vars
  /\ [][\A a \in RegisteredSet :
          (heap[a].state = TIMER_RUNNING /\ a \in RegisteredSet'
             /\ heap'[a].state # TIMER_RUNNING) =>
            /\ ret'.op = "pause"
            /\ ret'.val = true
            /\ heap'[a].state = TIMER_PAUSED]_vars

\* a start has just made Running a timer that had been paused part of the way,
\* beside a timer that is still Idle
C16_Witness ==
  /\ ret.op = "start"
  /\ ret.val = true
  /\ \E a, b \in RegisteredSet :
       /\ heap[a].state = TIMER_RUNNING
       /\ heap[a].remaining < heap[a].interval
       /\ heap[b].state = TIMER_IDLE

----------------------------------------------------------------------------
(* C19: start(id), pause(id) and cancel(id), whether they return true or     *)
(* false, leave every timer other than the one id denotes as it was: still   *)
(* registered, in the same order, with the same state, remaining, interval   *)
(* and repeat; start and pause also leave count() and next_id as they were.  *)

OthersUnchanged(id) ==
  LET others == RegisteredSet \ {TimerOf(id)}
  IN /\ Filter(Registered', others) = Filter(Registered, others)
     /\ \A a \in others : SameTimer(a)

StartPauseFrame(id) ==
  LET t == TimerOf(id)
  IN /\ Registered' = Registered
     /\ \A a \in RegisteredSet : a # t => heap'[a] = heap[a]
     /\ Count' = Count
     /\ timer_system'.next_id = timer_system.next_id

\* C19: what every start, pause and cancel step leaves alone
C19_Frame ==
  /\ [][ret'.op = "start" =>
          \A id \in IdValues : timer_start(id) => StartPauseFrame(id)]_vars
  /\ [][ret'.op = "pause" =>
          \A id \in IdValues : timer_pause(id) => StartPauseFrame(id)]_vars
  /\ [][ret'.op = "cancel" =>
          \A id \in IdValues : timer_cancel(id) => OthersUnchanged(id)]_vars

\* a start has succeeded on the second of two registered timers while the first,
\* paused part of the way, stayed as it was
C19_Witness ==
  /\ ret.op = "start"
  /\ ret.val = true
  /\ Len(Registered) = 2
  /\ heap[Registered[1]].state = TIMER_PAUSED
  /\ heap[Registered[1]].remaining < heap[Registered[1]].interval
  /\ heap[Registered[2]].state = TIMER_RUNNING

----------------------------------------------------------------------------
(* C20: init on a registry that is initialised returns true and changes      *)
(* nothing: the registered timers, their states and remaining values and     *)
(* next_id stay as they were; only an init on a registry that is not         *)
(* initialised (before the first init or after destroy) and whose allocation *)
(* succeeds gives an empty registry with next_id = 1.                        *)

\* C20: the effect of every init step
C20_InitIdempotent ==
  [][ret'.op = "init" => \A mallocOk \in BOOLEAN : timer_system_init(mallocOk) =>
       IF g_timer_system
       THEN /\ ret'.val = true
            /\ UNCHANGED <<g_timer_system, timer_system, heap, live>>
            /\ Registered' = Registered
       ELSE IF ret'.val = true
       THEN /\ g_timer_system'
            /\ Registered' = <<>>
            /\ Count' = 0
            /\ timer_system'.next_id = 1
       ELSE UNCHANGED <<g_timer_system, timer_system, heap, live>>]_vars

\* init has just returned true on a registry that holds a timer paused part of
\* the way and whose next_id is past 1
C20_Witness ==
  /\ ret.op = "init"
  /\ ret.val = true
  /\ timer_system.next_id # 1
  /\ \E a \in RegisteredSet :
       /\ heap[a].state = TIMER_PAUSED
       /\ heap[a].remaining < heap[a].interval

----------------------------------------------------------------------------
(* C17: a timer armed with remaining = interval fires in exactly the first   *)
(* update at which the elapsed values passed while it was Running since it   *)
(* was armed (elapsed_sum) add up to interval or more, and in no earlier     *)
(* one: while a timer is registered the sum is below its interval, a Running *)
(* timer fires in update(e) iff the sum plus e reaches interval, a timer     *)
(* that is Idle or Paused does not fire and its sum stays, and update(0)     *)
(* fires no timer.                                                           *)

ElapsedSumBelowInterval ==
  \A a \in RegisteredSet :
    /\ elapsed_sum[a] >= 0
    /\ elapsed_sum[a] < heap[a].interval

\* C17: the sum of elapsed in every state, and which timers every update fires
C17_FiresWhenSumReachesInterval ==
  /\ []ElapsedSumBelowInterval
  /\ [][ret'.op = "update" => \A e \in ElapsedValues : UpdateStep(e) =>
          /\ e = 0 => invoked' = <<>>
          /\ \A a \in RegisteredSet :
               IF heap[a].state = TIMER_RUNNING
               THEN /\ TimesInvoked(a)' = 1 <=> elapsed_sum[a] + e >= heap[a].interval
                    /\ TimesInvoked(a)' = 0 <=> elapsed_sum[a] + e < heap[a].interval
               ELSE /\ TimesInvoked(a)' = 0
                    /\ a \in RegisteredSet'
                    /\ elapsed_sum'[a] = elapsed_sum[a]]_vars

\* an update has just fired one timer while another, paused part of the way,
\* kept the sum it had
C17_Witness ==
  /\ ret.op = "update"
  /\ \E a, b \in RegisteredSet :
       /\ TimesInvoked(a) = 1
       /\ elapsed_sum[a] = 0
       /\ heap[b].state = TIMER_PAUSED
       /\ elapsed_sum[b] > 0
       /\ TimesInvoked(b) = 0

----------------------------------------------------------------------------
(* C18: when the callback of a timer that update fires calls cancel, on that *)
(* timer, on the one update visits next or on the one it visited just        *)
(* before, update never reads, relinks through or releases a Timer entry     *)
(* that has been released already.                                           *)

\* C18: no pass of update has used a released entry
C18_CancelInCallbackSafe == ~fault

----------------------------------------------------------------------------
(* C15: when update is called again and again with elapsed > 0, a started    *)
(* one-shot timer that is not paused, cancelled or destroyed is eventually   *)
(* fired once by an update and removed, and a started repeating timer that   *)
(* is not paused, cancelled or destroyed is eventually fired again, every    *)
(* time, hence infinitely often.                                             *)

RunningAt(a, repeat) ==
  /\ a \in RegisteredSet
  /\ heap[a].state = TIMER_RUNNING
  /\ heap[a].repeat = repeat

\* the last operation was an update that fired the timer at a once and removed it
FiredAndRemoved(a) ==
  ret.op = "update" /\ TimesInvoked(a) = 1 /\ a \notin RegisteredSet

\* the last operation was an update that fired the timer at a once and kept it
FiredAndKept(a) ==
  ret.op = "update" /\ TimesInvoked(a) = 1 /\ a \in RegisteredSet

\* the timer at a has been paused, cancelled or destroyed
Interrupted(a) ==
  \/ a \in RegisteredSet /\ heap[a].state = TIMER_PAUSED
  \/ a \notin RegisteredSet /\ ret.op \in {"cancel", "destroy"}

\* C15: every started timer fires, a repeating one again and again
C15_EventuallyFires ==
  \A a \in Addr :
    /\ RunningAt(a, FALSE) ~> (FiredAndRemoved(a) \/ Interrupted(a))
    /\ RunningAt(a, TRUE) ~> (FiredAndKept(a) \/ Interrupted(a))

\* one update has fired a one-shot timer, now removed, and a repeating timer,
\* still registered and running
C15_Witness ==
  /\ ret.op = "update"
  /\ \E a, b \in Addr :
       /\ FiredAndRemoved(a)
       /\ FiredAndKept(b)
       /\ RunningAt(b, TRUE)

============================================================================
